---- MODULE Spec2Model ----
(***************************************************************************)
(* A model of cpca-rs: the prefix tree (trie.rs), the region index         *)
(* (data.rs) and the address parser (parser.rs).                           *)
(*                                                                         *)
(* A Rust `char` is modelled by its Unicode scalar value (an integer) and  *)
(* a `str`/`String` by the sequence of its chars; byte offsets are         *)
(* computed from len_utf8, so a byte length differs from a char count.     *)
(* Option<T> is a sequence of length at most one: None is <<>> and         *)
(* Some(v) is <<v>>.  A HashMap is a function on its key set, a HashSet a  *)
(* set, a Vec a sequence.                                                  *)
(***************************************************************************)
EXTENDS Integers, Sequences, FiniteSets, TLC

VARIABLES
    pc,             \* position of AddressParser::new: "provinces", "cities", "districts", then "ready"
    todo,           \* names the running `for ... in &index.<set>` loop of new() has not visited yet
    index,          \* AddressParser.index
    province_trie,  \* AddressParser.province_trie
    city_trie,      \* AddressParser.city_trie
    district_trie,  \* AddressParser.district_trie
    op,             \* the public call just made, "none" once its caller has its value
    address,        \* the argument of the last parse call
    result,         \* the ParsedAddress the last parse call returned
    trie,           \* a Trie<i32> driven directly (trie.rs unit level)
    inserted,       \* history: name -> value of the last insert made with that name
    text,           \* the argument of the last find_longest_prefix or get call on `trie`
    found,          \* what that call returned
    args,           \* the arguments of the last normalize, parse_batch or is_valid_address call
    ret,            \* what a normalize, parse_batch or full_address call returned
    is_valid,       \* what the last is_valid_address call returned
    region_list,        \* the record list RegionIndex::build has gone through
    calls           \* per thread, the call it has in flight on the shared parser and its locals

vars == <<pc, todo, index, province_trie, city_trie, district_trie,
          op, address, result, trie, inserted, text, found, args, ret, is_valid,
          region_list, calls>>

(***************************************************************************)
(* Bounds of the model.                                                    *)
(***************************************************************************)
MaxDetailLen == 2   \* chars of free text after the recognised segments
MaxInserts == 2     \* inserts made on the directly driven trie
MaxNameLen == 2     \* chars of a name inserted in the directly driven trie
MaxBatch == 2       \* addresses given to one parse_batch call
MaxThreads == 2     \* threads that call the shared parser at the same time
MaxRegions == 3     \* records of a record list given to RegionIndex::build

(***************************************************************************)
(* Option, HashMap                                                         *)
(***************************************************************************)
None == <<>>
Some(v) == <<v>>
is_some(o) == o # <<>>
is_none(o) == o = <<>>
unwrap(o) == o[1]

map_get(m, k) == IF k \in DOMAIN m THEN Some(m[k]) ELSE None
map_insert(m, k, v) == [x \in (DOMAIN m) \cup {k} |-> IF x = k THEN v ELSE m[x]]

(***************************************************************************)
(* chars and strings                                                       *)
(***************************************************************************)
Sheng == <<30465>>  \* "省"
Shi == <<24066>>    \* "市"
Qu == <<21306>>     \* "区"
Xian == <<21439>>   \* "县"
Qi == <<26071>>     \* "旗"

\* char::len_utf8
len_utf8(ch) ==
    IF ch < 128 THEN 1 ELSE IF ch < 2048 THEN 2 ELSE IF ch < 65536 THEN 3 ELSE 4

\* str::len: the length in bytes
RECURSIVE byte_len(_)
byte_len(s) == IF s = <<>> THEN 0 ELSE len_utf8(Head(s)) + byte_len(Tail(s))

\* char::is_whitespace (the White_Space property), which str::trim uses
is_whitespace(ch) ==
    \/ ch \in 9..13
    \/ ch \in {32, 133, 160, 5760, 8232, 8233, 8239, 8287, 12288}
    \/ ch \in 8192..8202

\* what a slice at a byte offset inside a char, or past the end, does: it panics
Panic == <<-1>>

\* &s[n..] for a byte offset n
RECURSIVE slice_from(_, _)
slice_from(s, n) ==
    IF n = 0 THEN s
    ELSE IF s = <<>> \/ len_utf8(Head(s)) > n THEN Panic
    ELSE slice_from(Tail(s), n - len_utf8(Head(s)))

\* &s[..n] for a byte offset n
RECURSIVE slice_to(_, _)
slice_to(s, n) ==
    IF n = 0 THEN <<>>
    ELSE IF s = <<>> \/ len_utf8(Head(s)) > n THEN Panic
    ELSE LET rest == slice_to(Tail(s), n - len_utf8(Head(s)))
         IN IF rest = Panic THEN Panic ELSE <<Head(s)>> \o rest

starts_with(s, p) == Len(p) <= Len(s) /\ SubSeq(s, 1, Len(p)) = p
ends_with(s, p) == Len(p) <= Len(s) /\ SubSeq(s, Len(s) - Len(p) + 1, Len(s)) = p

\* str::trim_end_matches with a &str pattern: the pattern is removed repeatedly
RECURSIVE trim_end_matches(_, _)
trim_end_matches(s, p) ==
    IF p # <<>> /\ ends_with(s, p)
    THEN trim_end_matches(SubSeq(s, 1, Len(s) - Len(p)), p)
    ELSE s

\* str::trim_end_matches with a set of chars as the pattern
RECURSIVE trim_end_chars(_, _)
trim_end_chars(s, chars) ==
    IF s # <<>> /\ s[Len(s)] \in chars
    THEN trim_end_chars(SubSeq(s, 1, Len(s) - 1), chars)
    ELSE s

\* a trim_start that removes nothing
trim_start_none(s) == s

RECURSIVE trim_start(_)
trim_start(s) ==
    IF s # <<>> /\ is_whitespace(Head(s)) THEN trim_start(Tail(s)) ELSE s

RECURSIVE trim_end(_)
trim_end(s) ==
    IF s # <<>> /\ is_whitespace(s[Len(s)])
    THEN trim_end(SubSeq(s, 1, Len(s) - 1))
    ELSE s

\* a trim that removes nothing
trim_none(s) == s

\* a trim that removes the trailing whitespace only
trim_right_only(s) == trim_end(s)

\* str::trim
trim(s) == trim_end(trim_start(s))

(***************************************************************************)
(* trie.rs.  A trie is the function from the path of each node (the chars  *)
(* from the root) to the node's fields; a node has the child `ch` exactly  *)
(* when the path extended by `ch` is a node.                               *)
(***************************************************************************)
TrieNode_default == [value |-> None, is_end |-> FALSE]

Trie_new == (<<>> :> TrieNode_default)

Prefixes(word) == {SubSeq(word, 1, n) : n \in 0..Len(word)}

\* an insert that keeps the value a name already has
insert_keep_first(t, word, value) ==
    [p \in (DOMAIN t) \cup Prefixes(word) |->
        IF p \in DOMAIN t /\ t[p].is_end THEN t[p]
        ELSE IF p = word THEN [value |-> Some(value), is_end |-> TRUE]
        ELSE IF p \in DOMAIN t THEN t[p]
        ELSE TrieNode_default]

\* Trie::insert: `entry(ch).or_default()` along the word, then the last node is set
insert(t, word, value) ==
    [p \in (DOMAIN t) \cup Prefixes(word) |->
        IF p = word THEN [value |-> Some(value), is_end |-> TRUE]
        ELSE IF p \in DOMAIN t THEN t[p]
        ELSE TrieNode_default]

\* Trie::get
get(t, word) ==
    IF word \notin DOMAIN t THEN None
    ELSE IF t[word].is_end THEN t[word].value
    ELSE None

\* a walk that counts chars where the text is sliced by bytes
RECURSIVE find_walk_chars(_, _, _, _, _, _)
find_walk_chars(t, s, i, node, current_len, last_match) ==
    IF i > Len(s) THEN last_match
    ELSE LET ch == s[i]
             n == Append(node, ch)
         IN IF n \notin DOMAIN t THEN last_match
            ELSE LET len == current_len + 1
                     m == IF t[n].is_end /\ is_some(t[n].value)
                          THEN Some([matched |-> SubSeq(s, 1, len),
                                     value |-> unwrap(t[n].value),
                                     len |-> len])
                          ELSE last_match
                 IN find_walk_chars(t, s, i + 1, n, len, m)

\* the loop of Trie::find_longest_prefix from the i-th char on
RECURSIVE find_walk(_, _, _, _, _, _)
find_walk(t, s, i, node, current_len, last_match) ==
    IF i > Len(s) THEN last_match
    ELSE LET ch == s[i]
             n == Append(node, ch)
         IN IF n \notin DOMAIN t THEN last_match
            ELSE LET len == current_len + len_utf8(ch)
                     m == IF t[n].is_end /\ is_some(t[n].value)
                          THEN Some([matched |-> slice_to(s, len),
                                     value |-> unwrap(t[n].value),
                                     len |-> len])
                          ELSE last_match
                 IN find_walk(t, s, i + 1, n, len, m)

\* a search that stops at the first inserted name on the path
RECURSIVE find_first(_, _, _, _, _)
find_first(t, s, i, node, current_len) ==
    IF i > Len(s) THEN None
    ELSE LET ch == s[i]
             n == Append(node, ch)
             len == current_len + len_utf8(ch)
         IN IF n \notin DOMAIN t THEN None
            ELSE IF t[n].is_end /\ is_some(t[n].value)
            THEN Some([matched |-> slice_to(s, len), value |-> unwrap(t[n].value), len |-> len])
            ELSE find_first(t, s, i + 1, n, len)

find_first_prefix(t, s) == find_first(t, s, 1, <<>>, 0)

\* Trie::find_longest_prefix
find_longest_prefix(t, s) == find_walk(t, s, 1, <<>>, 0, None)

(***************************************************************************)
(* data.rs                                                                 *)
(***************************************************************************)
\* MUNICIPALITIES: 北京市, 上海市, 天津市, 重庆市
MUNICIPALITIES ==
    {<<21271, 20140, 24066>>,
     <<19978, 28023, 24066>>,
     <<22825, 27941, 24066>>,
     <<37325, 24198, 24066>>}

\* the (short, full) pairs province_aliases() inserts
AliasPairs ==
    {
      <<<<24191, 19996>>, <<24191, 19996, 30465>>>>,  \* 广东 -> 广东省
      <<<<27743, 33487>>, <<27743, 33487, 30465>>>>,  \* 江苏 -> 江苏省
      <<<<27993, 27743>>, <<27993, 27743, 30465>>>>,  \* 浙江 -> 浙江省
      <<<<23665, 19996>>, <<23665, 19996, 30465>>>>,  \* 山东 -> 山东省
      <<<<27827, 21335>>, <<27827, 21335, 30465>>>>,  \* 河南 -> 河南省
      <<<<27827, 21271>>, <<27827, 21271, 30465>>>>,  \* 河北 -> 河北省
      <<<<22235, 24029>>, <<22235, 24029, 30465>>>>,  \* 四川 -> 四川省
      <<<<28246, 21271>>, <<28246, 21271, 30465>>>>,  \* 湖北 -> 湖北省
      <<<<28246, 21335>>, <<28246, 21335, 30465>>>>,  \* 湖南 -> 湖南省
      <<<<31119, 24314>>, <<31119, 24314, 30465>>>>,  \* 福建 -> 福建省
      <<<<23433, 24509>>, <<23433, 24509, 30465>>>>,  \* 安徽 -> 安徽省
      <<<<27743, 35199>>, <<27743, 35199, 30465>>>>,  \* 江西 -> 江西省
      <<<<38485, 35199>>, <<38485, 35199, 30465>>>>,  \* 陕西 -> 陕西省
      <<<<23665, 35199>>, <<23665, 35199, 30465>>>>,  \* 山西 -> 山西省
      <<<<36797, 23425>>, <<36797, 23425, 30465>>>>,  \* 辽宁 -> 辽宁省
      <<<<21513, 26519>>, <<21513, 26519, 30465>>>>,  \* 吉林 -> 吉林省
      <<<<40657, 40857, 27743>>, <<40657, 40857, 27743, 30465>>>>,  \* 黑龙江 -> 黑龙江省
      <<<<20113, 21335>>, <<20113, 21335, 30465>>>>,  \* 云南 -> 云南省
      <<<<36149, 24030>>, <<36149, 24030, 30465>>>>,  \* 贵州 -> 贵州省
      <<<<29976, 32899>>, <<29976, 32899, 30465>>>>,  \* 甘肃 -> 甘肃省
      <<<<28023, 21335>>, <<28023, 21335, 30465>>>>,  \* 海南 -> 海南省
      <<<<38738, 28023>>, <<38738, 28023, 30465>>>>,  \* 青海 -> 青海省
      <<<<21488, 28286>>, <<21488, 28286, 30465>>>>,  \* 台湾 -> 台湾省
      <<<<24191, 35199>>, <<24191, 35199, 22766, 26063, 33258, 27835, 21306>>>>,  \* 广西 -> 广西壮族自治区
      <<<<20869, 33945, 21476>>, <<20869, 33945, 21476, 33258, 27835, 21306>>>>,  \* 内蒙古 -> 内蒙古自治区
      <<<<35199, 34255>>, <<35199, 34255, 33258, 27835, 21306>>>>,  \* 西藏 -> 西藏自治区
      <<<<26032, 30086>>, <<26032, 30086, 32500, 21566, 23572, 33258, 27835, 21306>>>>,  \* 新疆 -> 新疆维吾尔自治区
      <<<<23425, 22799>>, <<23425, 22799, 22238, 26063, 33258, 27835, 21306>>>>,  \* 宁夏 -> 宁夏回族自治区
      <<<<21271, 20140>>, <<21271, 20140, 24066>>>>,  \* 北京 -> 北京市
      <<<<19978, 28023>>, <<19978, 28023, 24066>>>>,  \* 上海 -> 上海市
      <<<<22825, 27941>>, <<22825, 27941, 24066>>>>,  \* 天津 -> 天津市
      <<<<37325, 24198>>, <<37325, 24198, 24066>>>>,  \* 重庆 -> 重庆市
      <<<<39321, 28207>>, <<39321, 28207, 29305, 21035, 34892, 25919, 21306>>>>,  \* 香港 -> 香港特别行政区
      <<<<28595, 38376>>, <<28595, 38376, 29305, 21035, 34892, 25919, 21306>>>>  \* 澳门 -> 澳门特别行政区
    }

\* province_aliases(): the HashMap short -> full
province_aliases ==
    [s \in {a[1] : a \in AliasPairs} |-> (CHOOSE a \in AliasPairs : a[1] = s)[2]]

\* names of the records below
BeijingShi == <<21271, 20140, 24066>>  \* 北京市
LiaoningSheng == <<36797, 23425, 30465>>  \* 辽宁省
JilinSheng == <<21513, 26519, 30465>>  \* 吉林省
HeilongjiangSheng == <<40657, 40857, 27743, 30465>>  \* 黑龙江省
ZhejiangSheng == <<27993, 27743, 30465>>  \* 浙江省
GuangdongSheng == <<24191, 19996, 30465>>  \* 广东省
ChaoyangShi == <<26397, 38451, 24066>>  \* 朝阳市
ChangchunShi == <<38271, 26149, 24066>>  \* 长春市
HegangShi == <<40548, 23703, 24066>>  \* 鹤岗市
JinhuaShi == <<37329, 21326, 24066>>  \* 金华市
ShenzhenShi == <<28145, 22323, 24066>>  \* 深圳市
DongguanShi == <<19996, 33694, 24066>>  \* 东莞市
ChaoyangQu == <<26397, 38451, 21306>>  \* 朝阳区
ChaoyangXian == <<26397, 38451, 21439>>  \* 朝阳县
NanshanQu == <<21335, 23665, 21306>>  \* 南山区
YiwuShi == <<20041, 20044, 24066>>  \* 义乌市

\* Region::new
Region(province, city, district) ==
    [province |-> province, city |-> city, district |-> district]

\* load_regions(): the rows of the bundled table, in file order.  The table
\* is not part of the sources; these rows are the ones the tests of
\* parser.rs rely on, with the two owners of a same-stem pair (朝阳区, 朝阳县).
load_regions ==
    << Region(BeijingShi, BeijingShi, Some(ChaoyangQu)),
       Region(LiaoningSheng, ChaoyangShi, Some(ChaoyangXian)),
       Region(JilinSheng, ChangchunShi, Some(ChaoyangQu)),
       Region(HeilongjiangSheng, HegangShi, Some(NanshanQu)),
       Region(ZhejiangSheng, JinhuaShi, Some(YiwuShi)),
       Region(GuangdongSheng, ShenzhenShi, Some(NanshanQu)),
       Region(GuangdongSheng, DongguanShi, None) >>

\* the suffixes a district abbreviation is made by removing: "区", "县", "市", "旗"
DistrictSuffixes == <<Qu, Xian, Shi, Qi>>

\* HashMap<_, HashSet<_>>: entry(k).or_default().insert(v)
set_entry_insert(m, k, v) ==
    map_insert(m, k, (IF k \in DOMAIN m THEN m[k] ELSE {}) \cup {v})

\* HashMap<_, Vec<_>>: entry(k).or_default().push(v)
vec_entry_push(m, k, v) ==
    map_insert(m, k, Append(IF k \in DOMAIN m THEN m[k] ELSE <<>>, v))

\* the loop `for suffix in &["区", "县", "市", "旗"]` of RegionIndex::build
RECURSIVE push_district_shorts(_, _, _, _)
push_district_shorts(d2c, region, district, i) ==
    IF i > Len(DistrictSuffixes) THEN d2c
    ELSE LET suffix == DistrictSuffixes[i]
             short == trim_end_matches(district, suffix)
             next == IF ends_with(district, suffix) /\ short # <<>>
                     THEN vec_entry_push(d2c, short, <<region.province, region.city>>)
                     ELSE d2c
         IN push_district_shorts(next, region, district, i + 1)

\* the body of the loop `for region in regions` of RegionIndex::build
index_add(idx, region) ==
    LET c2p1 == map_insert(idx.city_to_province, region.city, region.province)
        c2p2 == IF ends_with(region.city, Shi)
                THEN map_insert(c2p1, trim_end_matches(region.city, Shi), region.province)
                ELSE c2p1
        base == [idx EXCEPT
                    !.provinces = @ \cup {region.province},
                    !.province_cities = set_entry_insert(@, region.province, region.city),
                    !.city_to_province = c2p2,
                    !.cities = @ \cup {region.city}]
    IN IF is_none(region.district) THEN base
       ELSE LET district == unwrap(region.district)
                d2c1 == vec_entry_push(idx.district_to_city, district,
                                       <<region.province, region.city>>)
            IN [base EXCEPT
                    !.city_districts = set_entry_insert(@, region.city, district),
                    !.district_to_city = push_district_shorts(d2c1, region, district, 1),
                    !.districts = @ \cup {district}]

RegionIndex_empty ==
    [provinces |-> {}, province_cities |-> <<>>, city_to_province |-> <<>>,
     city_districts |-> <<>>, district_to_city |-> <<>>, cities |-> {}, districts |-> {}]

RECURSIVE build_from(_, _, _)
build_from(regions, i, idx) ==
    IF i > Len(regions) THEN idx
    ELSE build_from(regions, i + 1, index_add(idx, regions[i]))

\* RegionIndex::build
build(regions) == build_from(regions, 1, RegionIndex_empty)

\* RegionIndex::is_municipality
is_municipality(province) == province \in MUNICIPALITIES

\* a validation that accepts every district the index knows
validate_district_known(idx, city, district) == district \in idx.districts

\* RegionIndex::validate_district
validate_district(idx, city, district) ==
    IF city \in DOMAIN idx.city_districts
    THEN district \in idx.city_districts[city]
    ELSE FALSE

(***************************************************************************)
(* parser.rs: AddressParser::new.  The three loops run over HashSets, whose *)
(* iteration order is not fixed: each loop body is a step that takes any    *)
(* name the loop has not visited yet.                                       *)
(***************************************************************************)
RECURSIVE insert_all(_, _, _)
insert_all(t, words, value) ==
    IF words = {} THEN t
    ELSE LET w == CHOOSE w \in words : TRUE
         IN insert_all(insert(t, w, value), words \ {w}, value)

\* the body of `for province in &index.provinces`: the aliases are the keys of
\* a HashMap, all different, so the order of the inner loop changes nothing
new_province_step(t, province) ==
    insert_all(insert(t, province, province),
               {short \in DOMAIN province_aliases : province_aliases[short] = province},
               province)

\* the body of `for city in &index.cities`
new_city_step(t, city) ==
    LET t1 == insert(t, city, city)
    IN IF ends_with(city, Shi)
       THEN insert(t1, trim_end_matches(city, Shi), city)
       ELSE t1

\* the inner loop `for suffix in &["区", "县", "市", "旗"]` of the district loop
RECURSIVE insert_district_shorts(_, _, _)
insert_district_shorts(t, district, i) ==
    IF i > Len(DistrictSuffixes) THEN t
    ELSE LET suffix == DistrictSuffixes[i]
             short == trim_end_matches(district, suffix)
             next == IF ends_with(district, suffix) /\ short # <<>> /\ Len(short) >= 2
                     THEN insert(t, short, district)
                     ELSE t
         IN insert_district_shorts(next, district, i + 1)

\* the body of `for district in &index.districts`
new_district_step(t, district) ==
    insert_district_shorts(insert(t, district, district), district, 1)

(***************************************************************************)
(* parser.rs: AddressParser::parse.  P is the parser (its tries and its     *)
(* index); st is the pair of locals (result, remaining).                    *)
(***************************************************************************)
ParsedAddress_default ==
    [province |-> None, city |-> None, district |-> None, detail |-> <<>>]

\* ParsedAddress::empty
ParsedAddress_empty == ParsedAddress_default

\* AddressParser::validate_district_flexible
validate_district_flexible(idx, city, district) ==
    /\ city \in DOMAIN idx.city_districts
    /\ \E d \in idx.city_districts[city] :
          \/ starts_with(d, district)
          \/ starts_with(district, trim_end_chars(d, {Qu[1], Xian[1], Shi[1], Qi[1]}))

\* a municipality branch that leaves the city unset
municipality_branch_no_city(P, normalized, remaining) ==
    LET m == find_longest_prefix(P.district_trie, remaining)
        ok == is_some(m) /\ validate_district(P.index, normalized, unwrap(m).value)
        rest == IF ok THEN slice_from(remaining, unwrap(m).len) ELSE remaining
    IN [province |-> Some(normalized),
        city |-> None,
        district |-> IF ok THEN Some(unwrap(m).value) ELSE None,
        detail |-> trim(rest)]

\* lines 119-134: the branch taken when the matched province is a municipality
municipality_branch(P, normalized, remaining) ==
    LET m == find_longest_prefix(P.district_trie, remaining)
        ok == is_some(m) /\ validate_district(P.index, normalized, unwrap(m).value)
        rest == IF ok THEN slice_from(remaining, unwrap(m).len) ELSE remaining
    IN [province |-> Some(normalized),
        city |-> Some(normalized),
        district |-> IF ok THEN Some(unwrap(m).value) ELSE None,
        detail |-> trim(rest)]

\* a preference that compares the byte lengths only
prefer_district_longer_only(province, city_match, district_match) ==
    IF is_none(province)
    THEN IF is_some(city_match) /\ is_some(district_match)
         THEN unwrap(district_match).len > unwrap(city_match).len
         ELSE IF is_some(city_match) THEN FALSE
         ELSE is_some(district_match)
    ELSE FALSE

\* lines 143-159
prefer_district(province, city_match, district_match) ==
    IF is_none(province)
    THEN IF is_some(city_match) /\ is_some(district_match)
         THEN \/ unwrap(district_match).len > unwrap(city_match).len
              \/ ends_with(unwrap(district_match).value, Qu)
              \/ ends_with(unwrap(district_match).value, Xian)
              \/ ends_with(unwrap(district_match).value, Qi)
         ELSE IF is_some(city_match) THEN FALSE
         ELSE is_some(district_match)
    ELSE FALSE

\* a district-first step that takes the first owner of a district with several
take_district_first_guess(P, st, district_match) ==
    LET dist_normalized == unwrap(district_match).value
        cities == map_get(P.index.district_to_city, dist_normalized)
        r1 == [st.result EXCEPT !.district = Some(dist_normalized)]
        r2 == IF is_some(cities) /\ Len(unwrap(cities)) >= 1
              THEN [r1 EXCEPT !.province = Some(unwrap(cities)[1][1]),
                              !.city = Some(unwrap(cities)[1][2])]
              ELSE r1
    IN [result |-> r2, remaining |-> slice_from(st.remaining, unwrap(district_match).len)]

\* lines 161-177: the district match is taken first
take_district_first(P, st, district_match) ==
    LET dist_normalized == unwrap(district_match).value
        cities == map_get(P.index.district_to_city, dist_normalized)
        unique == is_some(cities) /\ Len(unwrap(cities)) = 1
        r1 == [st.result EXCEPT !.district = Some(dist_normalized)]
        r2 == IF unique
              THEN [r1 EXCEPT !.province = Some(unwrap(cities)[1][1]),
                              !.city = Some(unwrap(cities)[1][2])]
              ELSE r1
    IN [result |-> r2, remaining |-> slice_from(st.remaining, unwrap(district_match).len)]

\* a city step that does not consume the matched city
take_city_keep_remaining(P, st, city_match) ==
    IF is_none(city_match) THEN st
    ELSE LET normalized == unwrap(city_match).value
             owner == map_get(P.index.city_to_province, normalized)
             valid_city == IF is_some(st.result.province)
                           THEN is_some(owner) /\ unwrap(owner) = unwrap(st.result.province)
                           ELSE TRUE
         IN IF ~valid_city THEN st
            ELSE [result |-> [st.result EXCEPT
                                 !.city = Some(normalized),
                                 !.province = IF is_none(@) /\ is_some(owner)
                                              THEN Some(unwrap(owner)) ELSE @],
                  remaining |-> st.remaining]

\* a city step that does not compare the city's province with the recorded one
\* a city step that takes the city and leaves the province as it was
take_city_no_province(P, st, city_match) ==
    IF is_none(city_match) THEN st
    ELSE LET normalized == unwrap(city_match).value
             owner == map_get(P.index.city_to_province, normalized)
             valid_city == IF is_some(st.result.province)
                           THEN is_some(owner) /\ unwrap(owner) = unwrap(st.result.province)
                           ELSE TRUE
         IN IF ~valid_city THEN st
            ELSE [result |-> [st.result EXCEPT !.city = Some(normalized)],
                  remaining |-> slice_from(st.remaining, unwrap(city_match).len)]

take_city_any_province(P, st, city_match) ==
    IF is_none(city_match) THEN st
    ELSE LET normalized == unwrap(city_match).value
             owner == map_get(P.index.city_to_province, normalized)
         IN [result |-> [st.result EXCEPT
                            !.city = Some(normalized),
                            !.province = IF is_none(@) /\ is_some(owner)
                                         THEN Some(unwrap(owner)) ELSE @],
             remaining |-> slice_from(st.remaining, unwrap(city_match).len)]

\* lines 179-204: the city match is taken, when the city belongs to the province
take_city(P, st, city_match) ==
    IF is_none(city_match) THEN st
    ELSE LET normalized == unwrap(city_match).value
             owner == map_get(P.index.city_to_province, normalized)
             valid_city == IF is_some(st.result.province)
                           THEN is_some(owner) /\ unwrap(owner) = unwrap(st.result.province)
                           ELSE TRUE
         IN IF ~valid_city THEN st
            ELSE [result |-> [st.result EXCEPT
                                 !.city = Some(normalized),
                                 !.province = IF is_none(@) /\ is_some(owner)
                                              THEN Some(unwrap(owner)) ELSE @],
                  remaining |-> slice_from(st.remaining, unwrap(city_match).len)]

\* lines 137-205: the second step
city_stage(P, st) ==
    LET city_match == find_longest_prefix(P.city_trie, st.remaining)
        district_match == find_longest_prefix(P.district_trie, st.remaining)
    IN IF prefer_district(st.result.province, city_match, district_match)
       THEN take_district_first(P, st, district_match)
       ELSE take_city(P, st, city_match)

\* lines 223-238: the city (and province) looked up from the accepted district
city_from_district(P, r, normalized) ==
    LET cities == map_get(P.index.district_to_city, normalized)
    IN IF is_some(r.city) \/ is_none(cities) THEN r
       ELSE IF Len(unwrap(cities)) = 1
       THEN [r EXCEPT !.province = Some(unwrap(cities)[1][1]),
                      !.city = Some(unwrap(cities)[1][2])]
       ELSE IF is_some(r.province)
       THEN LET hits == {i \in 1..Len(unwrap(cities)) :
                            unwrap(cities)[i][1] = unwrap(r.province)}
            IN IF hits = {} THEN r
               ELSE LET first == CHOOSE i \in hits : \A j \in hits : i <= j
                    IN [r EXCEPT !.city = Some(unwrap(cities)[first][2])]
       ELSE r

\* lines 240-247: the province looked up from the city
province_from_city(P, r) ==
    IF is_none(r.province) /\ is_some(r.city)
    THEN LET province == map_get(P.index.city_to_province, unwrap(r.city))
         IN IF is_some(province) THEN [r EXCEPT !.province = Some(unwrap(province))] ELSE r
    ELSE r

\* lines 207-252: the third step
district_stage(P, st) ==
    IF is_some(st.result.district) THEN st
    ELSE LET m == find_longest_prefix(P.district_trie, st.remaining)
         IN IF is_none(m) THEN st
            ELSE LET normalized == unwrap(m).value
                     valid == IF is_some(st.result.city)
                              THEN \/ validate_district(P.index, unwrap(st.result.city), normalized)
                                   \/ validate_district_flexible(P.index, unwrap(st.result.city),
                                                                 normalized)
                              ELSE TRUE
                 IN IF ~valid THEN st
                    ELSE LET r1 == [st.result EXCEPT !.district = Some(normalized)]
                             r2 == city_from_district(P, r1, normalized)
                             r3 == province_from_city(P, r2)
                         IN [result |-> r3,
                             remaining |-> slice_from(st.remaining, unwrap(m).len)]

\* lines 254-259
municipality_backfill(r) ==
    IF is_some(r.province) /\ is_municipality(unwrap(r.province)) /\ is_none(r.city)
    THEN [r EXCEPT !.city = Some(unwrap(r.province))]
    ELSE r

\* lines 137-264: what parse does when it has not returned from the municipality branch
parse_rest(P, st) ==
    LET st2 == city_stage(P, st)
        st3 == district_stage(P, st2)
    IN [municipality_backfill(st3.result) EXCEPT !.detail = trim(st3.remaining)]

\* the province match of lines 113-114
province_match(P, address_) == find_longest_prefix(P.province_trie, trim(address_))

\* AddressParser::parse
parse(P, address_) ==
    LET trimmed == trim(address_)
        m == province_match(P, address_)
    IN IF trimmed = <<>> THEN ParsedAddress_empty
       ELSE IF is_none(m)
       THEN parse_rest(P, [result |-> ParsedAddress_default, remaining |-> trimmed])
       ELSE LET normalized == unwrap(m).value
                remaining == slice_from(trimmed, unwrap(m).len)
            IN IF is_municipality(normalized)
               THEN municipality_branch(P, normalized, remaining)
               ELSE parse_rest(P, [result |-> [ParsedAddress_default EXCEPT
                                                  !.province = Some(normalized)],
                                   remaining |-> remaining])

\* the local `remaining` of parse where detail is assigned (line 132 or line 262)
remaining_at_end(P, address_) ==
    LET trimmed == trim(address_)
        m == province_match(P, address_)
    IN IF trimmed = <<>> THEN <<>>
       ELSE IF is_none(m)
       THEN district_stage(P, city_stage(P, [result |-> ParsedAddress_default,
                                             remaining |-> trimmed])).remaining
       ELSE LET normalized == unwrap(m).value
                remaining == slice_from(trimmed, unwrap(m).len)
            IN IF is_municipality(normalized)
               THEN LET d == find_longest_prefix(P.district_trie, remaining)
                    IN IF is_some(d) /\ validate_district(P.index, normalized, unwrap(d).value)
                       THEN slice_from(remaining, unwrap(d).len)
                       ELSE remaining
               ELSE district_stage(P, city_stage(P,
                        [result |-> [ParsedAddress_default EXCEPT
                                        !.province = Some(normalized)],
                         remaining |-> remaining])).remaining

(***************************************************************************)
(* parser.rs: normalize, parse_batch, is_valid_address; region.rs:         *)
(* full_address.                                                            *)
(***************************************************************************)
\* a province normalisation that appends "省" without looking the name up
norm_province_unchecked(idx, province) ==
    LET alias == map_get(province_aliases, province)
    IN IF is_some(alias) THEN unwrap(alias) ELSE province \o Sheng

\* lines 309-326: the alias table, then the canonical set, then the suffix "省"
norm_province(idx, province) ==
    LET alias == map_get(province_aliases, province)
        with_suffix == province \o Sheng
    IN IF is_some(alias) THEN unwrap(alias)
       ELSE IF province \in idx.provinces THEN province
       ELSE IF with_suffix \in idx.provinces THEN with_suffix
       ELSE province

\* lines 329-338: the canonical set, then the suffix "市"
norm_city(idx, city) ==
    LET with_suffix == city \o Shi
    IN IF city \in idx.cities THEN city
       ELSE IF with_suffix \in idx.cities THEN with_suffix
       ELSE city

\* the first suffix of the list, from the i-th on, that completes d to a district
RECURSIVE first_with_suffix(_, _, _, _)
first_with_suffix(idx, d, suffixes, i) ==
    IF i > Len(suffixes) THEN d
    ELSE IF d \o suffixes[i] \in idx.districts THEN d \o suffixes[i]
    ELSE first_with_suffix(idx, d, suffixes, i + 1)

\* a district normalisation that tries "县" before "区"
norm_district_county_first(idx, district) ==
    IF is_none(district) THEN None
    ELSE LET d == unwrap(district)
         IN IF d \in idx.districts THEN Some(d)
            ELSE Some(first_with_suffix(idx, d, <<Xian, Qu, Shi>>, 1))

\* lines 341-354: the canonical set, then the suffixes "区", "县", "市" in this order
norm_district(idx, district) ==
    IF is_none(district) THEN None
    ELSE LET d == unwrap(district)
         IN IF d \in idx.districts THEN Some(d)
            ELSE Some(first_with_suffix(idx, d, <<Qu, Xian, Shi>>, 1))

\* a normalize that writes the name of a municipality once
normalize_once(P, province, city, district) ==
    LET p == norm_province(P.index, province)
        c == norm_city(P.index, city)
        d == norm_district(P.index, district)
    IN p \o (IF c = p THEN <<>> ELSE c) \o (IF is_some(d) THEN unwrap(d) ELSE <<>>)

\* AddressParser::normalize
normalize(P, province, city, district) ==
    LET d == norm_district(P.index, district)
    IN norm_province(P.index, province) \o norm_city(P.index, city)
          \o (IF is_some(d) THEN unwrap(d) ELSE <<>>)

\* a batch that collects the results last first
RECURSIVE parse_batch_reversed(_, _)
parse_batch_reversed(P, addresses) ==
    IF addresses = <<>> THEN <<>>
    ELSE parse_batch_reversed(P, Tail(addresses)) \o <<parse(P, addresses[1])>>

\* AddressParser::parse_batch
RECURSIVE parse_batch(_, _)
parse_batch(P, addresses) ==
    IF addresses = <<>> THEN <<>>
    ELSE <<parse(P, addresses[1])>> \o parse_batch(P, Tail(addresses))

\* a validity test that a district alone satisfies
is_valid_address_any(P, address_) ==
    LET r == parse(P, address_)
    IN is_some(r.province) \/ is_some(r.city) \/ is_some(r.district)

\* AddressParser::is_valid_address
is_valid_address(P, address_) ==
    LET r == parse(P, address_)
    IN is_some(r.province) \/ is_some(r.city)

\* ParsedAddress::full_address
full_address(r) ==
    (IF is_some(r.province) THEN unwrap(r.province) ELSE <<>>)
       \o (IF is_some(r.city) /\ r.province # r.city THEN unwrap(r.city) ELSE <<>>)
       \o (IF is_some(r.district) THEN unwrap(r.district) ELSE <<>>)
       \o r.detail

\* AddressParser::cities_of_province; the Vec lists the set in the iteration
\* order of the HashSet, which no call changes, so the set stands for it
cities_of_province(P, province) ==
    LET alias == map_get(province_aliases, province)
        norm_province_ == IF is_some(alias) THEN unwrap(alias) ELSE province
    IN IF norm_province_ \in DOMAIN P.index.province_cities
       THEN P.index.province_cities[norm_province_]
       ELSE {}

(***************************************************************************)
(* A call in flight on a thread: `stage` is the step parse is about to     *)
(* take, `st` its locals (result, remaining).                              *)
(***************************************************************************)
Done(op_, args_, value) == [stage |-> "done", op |-> op_, args |-> args_, value |-> value]

\* parse, lines 104-135: trim, the province step, and the municipality branch
parse_begin(P, address_) ==
    LET trimmed == trim(address_)
        m == find_longest_prefix(P.province_trie, trimmed)
    IN IF trimmed = <<>> THEN Done("parse", address_, ParsedAddress_empty)
       ELSE IF is_none(m)
       THEN [stage |-> "city", op |-> "parse", args |-> address_,
             st |-> [result |-> ParsedAddress_default, remaining |-> trimmed]]
       ELSE LET normalized == unwrap(m).value
                remaining == slice_from(trimmed, unwrap(m).len)
            IN IF is_municipality(normalized)
               THEN Done("parse", address_, municipality_branch(P, normalized, remaining))
               ELSE [stage |-> "city", op |-> "parse", args |-> address_,
                     st |-> [result |-> [ParsedAddress_default EXCEPT
                                            !.province = Some(normalized)],
                             remaining |-> remaining]]

\* a step that starts again from the call's argument: the locals of the
\* earlier steps are lost
call_step_lost(P, c) ==
    IF c.stage = "city"
    THEN [c EXCEPT !.stage = "district", !.st = city_stage(P, c.st)]
    ELSE LET st3 == district_stage(P, [result |-> ParsedAddress_default,
                                       remaining |-> trim(c.args)])
         IN Done(c.op, c.args,
                 [municipality_backfill(st3.result) EXCEPT !.detail = trim(st3.remaining)])

\* parse, lines 137-205 (stage "city") and lines 207-264 (stage "district")
call_step(P, c) ==
    IF c.stage = "city"
    THEN [c EXCEPT !.stage = "district", !.st = city_stage(P, c.st)]
    ELSE LET st3 == district_stage(P, c.st)
         IN Done(c.op, c.args,
                 [municipality_backfill(st3.result) EXCEPT !.detail = trim(st3.remaining)])

(***************************************************************************)
(* GLOBAL_PARSER: Lazy<AddressParser>.  The cell type comes from the       *)
(* once_cell crate, whose code is not part of the sources; it is modelled  *)
(* by the construction rule of the specification: construction is a        *)
(* one-time, non-reentrant pass that completes before any parse call.      *)
(* `cell` is "uninit", "running" while a thread runs AddressParser::new,   *)
(* or "ready".                                                             *)
(***************************************************************************)
\* the dereference of GLOBAL_PARSER: what the caller does next, given the state
\* of the cell it finds
lazy_force(cell) ==
    IF cell = "ready" THEN "run"
    ELSE IF cell = "uninit" THEN "init"
    ELSE "wait"

(***************************************************************************)
(* The inputs of the calls.                                                *)
(***************************************************************************)
RECURSIVE Strings(_, _)
\* the strings of at most n chars over an alphabet
Strings(chars, n) ==
    IF n = 0 THEN {<<>>}
    ELSE LET shorter == Strings(chars, n - 1)
         IN shorter \cup {Append(s, ch) : s \in shorter, ch \in chars}

TheIndex == build(load_regions)

\* a province as an address may write it: the full name or its alias
ProvinceTokens ==
    TheIndex.provinces
        \cup {short \in DOMAIN province_aliases : province_aliases[short] \in TheIndex.provinces}

\* a city as an address may write it, with or without "市"; and a stray "省"
CityTokens ==
    TheIndex.cities \cup {trim_end_matches(c, Shi) : c \in TheIndex.cities} \cup {Sheng}

\* a district as an address may write it, with or without its suffix
DistrictTokens ==
    TheIndex.districts
        \cup {trim_end_chars(d, {Qu[1], Xian[1], Shi[1], Qi[1]}) : d \in TheIndex.districts}

\* free text: " " and "路"
DetailChars == {32, 36335}
Details == Strings(DetailChars, MaxDetailLen)

\* the addresses parse is called with: optional leading blank, then at most one
\* province, city and district token in that order, then free text
Addresses ==
    {lead \o p \o c \o d \o s :
        lead \in {<<>>, <<32>>},
        p \in ProvinceTokens \cup {<<>>},
        c \in CityTokens \cup {<<>>},
        d \in DistrictTokens \cup {<<>>},
        s \in Details}

\* the provinces normalize is called with: a full name, an alias, or an unknown name
NormProvinces == ProvinceTokens \cup DOMAIN province_aliases \cup {<<36335>>}

\* the cities normalize is called with: with or without "市", or an unknown name
NormCities == (CityTokens \ {Sheng}) \cup {<<36335>>}

\* the districts normalize is called with: none, with or without suffix, unknown
NormDistricts == {None} \cup {Some(d) : d \in DistrictTokens \cup {<<36335>>}}

\* the addresses of a batch
BatchTexts ==
    {<<>>, <<36335>>, ChaoyangQu, trim_end_matches(ChaoyangQu, Qu),
     GuangdongSheng \o ShenzhenShi \o NanshanQu, BeijingShi \o ChaoyangQu \o <<36335>>,
     trim_end_matches(ShenzhenShi, Shi), YiwuShi}

RECURSIVE Batches(_)
\* the batches of at most n addresses
Batches(n) ==
    IF n = 0 THEN {<<>>}
    ELSE LET shorter == Batches(n - 1)
         IN shorter \cup {Append(b, a) : b \in shorter, a \in BatchTexts}

\* the calls the threads make on the shared parser
SharedTexts ==
    {<<32>>, <<36335>>, trim_end_matches(ChaoyangQu, Qu), ChaoyangShi,
     GuangdongSheng \o ShenzhenShi \o NanshanQu \o <<32, 36335>>,
     trim_end_matches(BeijingShi, Shi) \o ChaoyangQu,
     trim_end_matches(JilinSheng, Sheng) \o YiwuShi}

SharedNormalizeArgs ==
    {[province |-> trim_end_matches(GuangdongSheng, Sheng),
      city |-> trim_end_matches(ShenzhenShi, Shi),
      district |-> Some(trim_end_matches(NanshanQu, Qu))],
     [province |-> BeijingShi, city |-> BeijingShi, district |-> None]}

SharedProvinces == {GuangdongSheng, trim_end_matches(LiaoningSheng, Sheng)}

\* records of a list given to RegionIndex::build: a county-level city and a
\* county of the same stem under one prefecture (和田市 and 和田县 of 和田地区),
\* the same stem under two cities, and a city without districts
XinjiangQu == <<26032, 30086, 32500, 21566, 23572, 33258, 27835, 21306>>  \* 新疆维吾尔自治区
HetianDiqu == <<21644, 30000, 22320, 21306>>  \* 和田地区
HetianShi == <<21644, 30000, 24066>>  \* 和田市
HetianXian == <<21644, 30000, 21439>>  \* 和田县

BuildRegions ==
    {Region(XinjiangQu, HetianDiqu, Some(HetianShi)),
     Region(XinjiangQu, HetianDiqu, Some(HetianXian)),
     Region(BeijingShi, BeijingShi, Some(ChaoyangQu)),
     Region(LiaoningSheng, ChaoyangShi, Some(ChaoyangXian)),
     Region(GuangdongSheng, DongguanShi, None)}

\* the addresses parsed on a parser built from such a list
BuildTexts ==
    {trim_end_matches(HetianShi, Shi), HetianXian, HetianShi \o <<36335>>,
     trim_end_matches(ChaoyangQu, Qu), ChaoyangXian, DongguanShi}

\* the addresses of the first calls to the global parser
LazyTexts == {trim_end_matches(ChaoyangQu, Qu), GuangdongSheng \o ShenzhenShi \o NanshanQu}

\* the names inserted in the directly driven trie, and the texts searched:
\* "a" is one byte long, "广" three; the empty name is a name like any other
\* for Trie::insert
TrieChars == {97, 24191}
TrieNames == Strings(TrieChars, MaxNameLen)
TrieTexts == Strings(TrieChars, MaxNameLen + 1)
TrieValues == {1, 2}

(***************************************************************************)
(* The parser as a state machine: construction, then calls.                *)
(***************************************************************************)
Parser ==
    [province_trie |-> province_trie, city_trie |-> city_trie,
     district_trie |-> district_trie, index |-> index]

TrieIdle ==
    /\ trie = Trie_new
    /\ inserted = <<>>
    /\ text = <<>>
    /\ found = None

\* the worker threads that share one built parser
Threads == 1..MaxThreads

\* a thread that has no call in flight
Idle == [stage |-> "idle"]

\* no call other than parse has been made, and no thread has a call in flight
NoCalls ==
    /\ args = <<>>
    /\ ret = <<>>
    /\ is_valid = FALSE
    /\ calls = [t \in Threads |-> Idle]

\* AddressParser::new runs its three loops one after the other, and a loop over
\* an empty set has no pass: the position of new() when it comes to the loop
\* `from`, which is the first loop from there on that has a name to visit, or
\* the end of new()
next_loop(idx, from) ==
    IF from = "provinces" /\ idx.provinces # {}
    THEN [pc |-> "provinces", todo |-> idx.provinces]
    ELSE IF from \in {"provinces", "cities"} /\ idx.cities # {}
    THEN [pc |-> "cities", todo |-> idx.cities]
    ELSE IF idx.districts # {}
    THEN [pc |-> "districts", todo |-> idx.districts]
    ELSE [pc |-> "ready", todo |-> {}]

\* AddressParser::new up to its first loop: the index is built, the tries are empty
Init ==
    /\ index = build(load_regions)
    /\ pc = next_loop(build(load_regions), "provinces").pc
    /\ todo = next_loop(build(load_regions), "provinces").todo
    /\ province_trie = Trie_new
    /\ city_trie = Trie_new
    /\ district_trie = Trie_new
    /\ op = "none"
    /\ address = <<>>
    /\ result = ParsedAddress_default
    /\ region_list = load_regions
    /\ TrieIdle
    /\ NoCalls

\* one pass of `for province in &index.provinces`
NewProvince ==
    /\ pc = "provinces"
    /\ \E province \in todo :
          /\ province_trie' = new_province_step(province_trie, province)
          /\ IF todo = {province}
             THEN /\ pc' = next_loop(index, "cities").pc
                  /\ todo' = next_loop(index, "cities").todo
             ELSE pc' = pc /\ todo' = todo \ {province}
    /\ UNCHANGED <<index, city_trie, district_trie, op, address, result,
                   trie, inserted, text, found,
                   args, ret, calls, is_valid, region_list>>

\* one pass of `for city in &index.cities`
NewCity ==
    /\ pc = "cities"
    /\ \E city \in todo :
          /\ city_trie' = new_city_step(city_trie, city)
          /\ IF todo = {city}
             THEN /\ pc' = next_loop(index, "districts").pc
                  /\ todo' = next_loop(index, "districts").todo
             ELSE pc' = pc /\ todo' = todo \ {city}
    /\ UNCHANGED <<index, province_trie, district_trie, op, address, result,
                   trie, inserted, text, found,
                   args, ret, calls, is_valid, region_list>>

\* one pass of `for district in &index.districts`
NewDistrict ==
    /\ pc = "districts"
    /\ \E district \in todo :
          /\ district_trie' = new_district_step(district_trie, district)
          /\ IF todo = {district}
             THEN pc' = "ready" /\ todo' = {}
             ELSE pc' = pc /\ todo' = todo \ {district}
    /\ UNCHANGED <<index, province_trie, city_trie, op, address, result,
                   trie, inserted, text, found,
                   args, ret, calls, is_valid, region_list>>

\* a call of AddressParser::parse on the built parser
Parse ==
    /\ pc = "ready"
    /\ op = "none"
    /\ \E a \in Addresses :
          /\ address' = a
          /\ result' = parse(Parser, a)
    /\ op' = "parse"
    /\ UNCHANGED <<pc, todo, index, province_trie, city_trie, district_trie,
                   trie, inserted, text, found,
                   args, ret, calls, is_valid, region_list>>

\* result.full_address() on the ParsedAddress the parse call just returned
FullAddress ==
    /\ pc = "ready"
    /\ op = "parse"
    /\ ret' = full_address(result)
    /\ op' = "full_address"
    /\ UNCHANGED <<pc, todo, index, province_trie, city_trie, district_trie,
                   address, result, trie, inserted, text, found, args, calls, is_valid, region_list>>

\* a call of AddressParser::normalize on the built parser
Normalize ==
    /\ pc = "ready"
    /\ op = "none"
    /\ \E province \in NormProvinces, city \in NormCities, district \in NormDistricts :
          /\ args' = [province |-> province, city |-> city, district |-> district]
          /\ ret' = normalize(Parser, province, city, district)
    /\ op' = "normalize"
    /\ UNCHANGED <<pc, todo, index, province_trie, city_trie, district_trie,
                   address, result, trie, inserted, text, found, calls, is_valid, region_list>>

\* a call of AddressParser::parse_batch on the built parser
ParseBatch ==
    /\ pc = "ready"
    /\ op = "none"
    /\ \E addresses \in Batches(MaxBatch) :
          /\ args' = addresses
          /\ ret' = parse_batch(Parser, addresses)
    /\ op' = "parse_batch"
    /\ UNCHANGED <<pc, todo, index, province_trie, city_trie, district_trie,
                   address, result, trie, inserted, text, found, calls, is_valid, region_list>>

\* a call of AddressParser::is_valid_address on the built parser
IsValidAddress ==
    /\ pc = "ready"
    /\ op = "none"
    /\ \E a \in Addresses :
          /\ args' = a
          /\ is_valid' = is_valid_address(Parser, a)
    /\ op' = "is_valid_address"
    /\ UNCHANGED <<pc, todo, index, province_trie, city_trie, district_trie,
                   address, result, trie, inserted, text, found, ret, calls, region_list>>

\* the caller is done with the value returned and may call again
Return ==
    /\ pc = "ready"
    /\ op # "none"
    /\ op' = "none"
    /\ address' = <<>>
    /\ result' = ParsedAddress_default
    /\ args' = <<>>
    /\ ret' = <<>>
    /\ is_valid' = FALSE
    /\ UNCHANGED <<pc, todo, index, province_trie, city_trie, district_trie,
                   trie, inserted, text, found, calls, region_list>>

Next ==
    \/ NewProvince \/ NewCity \/ NewDistrict
    \/ Parse \/ FullAddress \/ Normalize \/ ParseBatch \/ IsValidAddress
    \/ Return

Spec == Init /\ [][Next]_vars

(***************************************************************************)
(* One built parser shared by threads (AddressParser::global): each thread *)
(* makes calls of its own, and the steps of the calls interleave.          *)
(***************************************************************************)
\* thread t calls parse, normalize or cities_of_province
ThreadCall(t) ==
    /\ pc = "ready"
    /\ calls[t].stage = "idle"
    /\ \/ \E a \in SharedTexts :
             calls' = [calls EXCEPT ![t] = parse_begin(Parser, a)]
       \/ \E a \in SharedNormalizeArgs :
             calls' = [calls EXCEPT ![t] =
                          Done("normalize", a,
                               normalize(Parser, a.province, a.city, a.district))]
       \/ \E a \in SharedProvinces :
             calls' = [calls EXCEPT ![t] =
                          Done("cities_of_province", a, cities_of_province(Parser, a))]
    /\ UNCHANGED <<pc, todo, index, province_trie, city_trie, district_trie,
                   op, address, result, trie, inserted, text, found, args, ret, is_valid, region_list>>

\* thread t takes the next step of its parse call
ThreadStep(t) ==
    /\ pc = "ready"
    /\ calls[t].stage \in {"city", "district"}
    /\ calls' = [calls EXCEPT ![t] = call_step(Parser, calls[t])]
    /\ UNCHANGED <<pc, todo, index, province_trie, city_trie, district_trie,
                   op, address, result, trie, inserted, text, found, args, ret, is_valid, region_list>>

\* the call of thread t returns to its caller
ThreadReturn(t) ==
    /\ pc = "ready"
    /\ calls[t].stage = "done"
    /\ calls' = [calls EXCEPT ![t] = Idle]
    /\ UNCHANGED <<pc, todo, index, province_trie, city_trie, district_trie,
                   op, address, result, trie, inserted, text, found, args, ret, is_valid, region_list>>

SharedNext ==
    \/ NewProvince \/ NewCity \/ NewDistrict
    \/ \E t \in Threads : ThreadCall(t) \/ ThreadStep(t) \/ ThreadReturn(t)

SharedSpec == Init /\ [][SharedNext]_vars

(***************************************************************************)
(* RegionIndex::build and AddressParser::new on any record list: the index *)
(* is built record by record, then the tries, then addresses are parsed.   *)
(***************************************************************************)
BuildInit ==
    /\ index = RegionIndex_empty
    /\ pc = "build"
    /\ todo = {}
    /\ province_trie = Trie_new
    /\ city_trie = Trie_new
    /\ district_trie = Trie_new
    /\ op = "none"
    /\ address = <<>>
    /\ result = ParsedAddress_default
    /\ region_list = <<>>
    /\ TrieIdle
    /\ NoCalls

\* one pass of `for region in regions` of RegionIndex::build; the list has no
\* row twice
BuildRegion ==
    /\ pc = "build"
    /\ Len(region_list) < MaxRegions
    /\ \E region \in BuildRegions :
          /\ \A i \in 1..Len(region_list) : region_list[i] # region
          /\ index' = index_add(index, region)
          /\ region_list' = Append(region_list, region)
    /\ UNCHANGED <<pc, todo, province_trie, city_trie, district_trie, op, address,
                   result, trie, inserted, text, found, args, ret, is_valid, calls>>

\* the record list is exhausted: build returns and new() comes to its loops
BuildDone ==
    /\ pc = "build"
    /\ pc' = next_loop(index, "provinces").pc
    /\ todo' = next_loop(index, "provinces").todo
    /\ UNCHANGED <<index, province_trie, city_trie, district_trie, op, address,
                   result, trie, inserted, text, found, args, ret, is_valid, calls,
                   region_list>>

\* a call of AddressParser::parse on the parser built from the list
BuildParse ==
    /\ pc = "ready"
    /\ op = "none"
    /\ \E a \in BuildTexts :
          /\ address' = a
          /\ result' = parse(Parser, a)
    /\ op' = "parse"
    /\ UNCHANGED <<pc, todo, index, province_trie, city_trie, district_trie,
                   trie, inserted, text, found, args, ret, is_valid, calls, region_list>>

BuildNext ==
    \/ BuildRegion \/ BuildDone
    \/ NewProvince \/ NewCity \/ NewDistrict
    \/ BuildParse

BuildSpec == BuildInit /\ [][BuildNext]_vars

(***************************************************************************)
(* The global parser: threads call cpca::parse, which dereferences         *)
(* GLOBAL_PARSER; the first dereference runs AddressParser::new, whose      *)
(* loops are the actions NewProvince, NewCity and NewDistrict.             *)
(***************************************************************************)
\* the state of the cell, read off the position of the constructor
Cell == IF pc = "uninit" THEN "uninit" ELSE IF pc = "ready" THEN "ready" ELSE "running"

LazyInit ==
    /\ index = RegionIndex_empty
    /\ pc = "uninit"
    /\ todo = {}
    /\ province_trie = Trie_new
    /\ city_trie = Trie_new
    /\ district_trie = Trie_new
    /\ op = "none"
    /\ address = <<>>
    /\ result = ParsedAddress_default
    /\ region_list = <<>>
    /\ TrieIdle
    /\ args = <<>>
    /\ ret = <<>>
    /\ is_valid = FALSE
    /\ calls = [t \in Threads |-> [stage |-> "idle", built |-> 0]]

\* thread t calls cpca::parse(a) or cpca::normalize(province, city, district)
LazyCall(t) ==
    /\ calls[t].stage = "idle"
    /\ \/ \E a \in LazyTexts :
             calls' = [calls EXCEPT ![t] =
                          [stage |-> "force", built |-> @.built, op |-> "parse", args |-> a]]
       \/ \E a \in SharedNormalizeArgs :
             calls' = [calls EXCEPT ![t] =
                          [stage |-> "force", built |-> @.built, op |-> "normalize",
                           args |-> a]]
    /\ UNCHANGED <<pc, todo, index, province_trie, city_trie, district_trie, op, address,
                   result, trie, inserted, text, found, args, ret, is_valid, region_list>>

\* AddressParser::global(): the dereference of GLOBAL_PARSER; the thread that
\* finds the cell uninitialised takes it and starts AddressParser::new
LazyForce(t) ==
    /\ calls[t].stage = "force"
    /\ LET next == lazy_force(Cell)
       IN IF next = "init"
          THEN /\ calls' = [calls EXCEPT ![t].stage = "init", ![t].built = @ + 1]
               /\ region_list' = load_regions
               /\ index' = build(load_regions)
               /\ todo' = next_loop(build(load_regions), "provinces").todo
               /\ pc' = next_loop(build(load_regions), "provinces").pc
               /\ province_trie' = Trie_new
               /\ city_trie' = Trie_new
               /\ district_trie' = Trie_new
          ELSE /\ calls' = [calls EXCEPT ![t].stage = next]
               /\ UNCHANGED <<pc, todo, index, province_trie, city_trie, district_trie,
                              region_list>>
    /\ UNCHANGED <<op, address, result, trie, inserted, text, found, args, ret, is_valid>>

\* the constructor has returned (to the thread that ran it) or the cell has
\* become ready (for a thread that waited): the call goes on
LazyReady(t) ==
    /\ calls[t].stage \in {"init", "wait"}
    /\ Cell = "ready"
    /\ calls' = [calls EXCEPT ![t].stage = "run"]
    /\ UNCHANGED <<pc, todo, index, province_trie, city_trie, district_trie, op, address,
                   result, trie, inserted, text, found, args, ret, is_valid, region_list>>

\* AddressParser::global().parse(a), AddressParser::global().normalize(p, c, d)
LazyRun(t) ==
    /\ calls[t].stage = "run"
    /\ calls' = [calls EXCEPT ![t] =
                    [stage |-> "done", built |-> @.built, op |-> @.op, args |-> @.args,
                     value |-> IF @.op = "parse" THEN parse(Parser, @.args)
                               ELSE normalize(Parser, @.args.province, @.args.city,
                                              @.args.district)]]
    /\ UNCHANGED <<pc, todo, index, province_trie, city_trie, district_trie, op, address,
                   result, trie, inserted, text, found, args, ret, is_valid, region_list>>

\* the call of thread t returns to its caller
LazyReturn(t) ==
    /\ calls[t].stage = "done"
    /\ calls' = [calls EXCEPT ![t] = [stage |-> "idle", built |-> @.built]]
    /\ UNCHANGED <<pc, todo, index, province_trie, city_trie, district_trie, op, address,
                   result, trie, inserted, text, found, args, ret, is_valid, region_list>>

LazyNext ==
    \/ NewProvince \/ NewCity \/ NewDistrict
    \/ \E t \in Threads :
          LazyCall(t) \/ LazyForce(t) \/ LazyReady(t) \/ LazyRun(t) \/ LazyReturn(t)

LazySpec == LazyInit /\ [][LazyNext]_vars

(***************************************************************************)
(* The trie alone: inserts and longest-prefix searches.                    *)
(***************************************************************************)
ParserIdle ==
    /\ index = RegionIndex_empty
    /\ pc = "trie"
    /\ todo = {}
    /\ province_trie = Trie_new
    /\ city_trie = Trie_new
    /\ district_trie = Trie_new
    /\ op = "none"
    /\ address = <<>>
    /\ result = ParsedAddress_default
    /\ region_list = <<>>

TrieInit == ParserIdle /\ TrieIdle /\ NoCalls

\* trie.insert(word, value)
TrieInsert ==
    /\ op = "none"
    /\ Cardinality(DOMAIN inserted) < MaxInserts
    /\ \E word \in TrieNames, value \in TrieValues :
          /\ trie' = insert(trie, word, value)
          /\ inserted' = map_insert(inserted, word, value)
    /\ UNCHANGED <<pc, todo, index, province_trie, city_trie, district_trie,
                   op, address, result, text, found,
                   args, ret, calls, is_valid, region_list>>

\* trie.find_longest_prefix(text)
TrieFind ==
    /\ op = "none"
    /\ \E s \in TrieTexts :
          /\ text' = s
          /\ found' = find_longest_prefix(trie, s)
    /\ op' = "find_longest_prefix"
    /\ UNCHANGED <<pc, todo, index, province_trie, city_trie, district_trie,
                   address, result, trie, inserted,
                   args, ret, calls, is_valid, region_list>>

\* trie.get(word)
TrieGet ==
    /\ op = "none"
    /\ \E word \in TrieTexts :
          /\ text' = word
          /\ found' = get(trie, word)
    /\ op' = "get"
    /\ UNCHANGED <<pc, todo, index, province_trie, city_trie, district_trie,
                   address, result, trie, inserted, args, ret, calls, is_valid, region_list>>

\* the caller is done with the value returned and may call again
TrieReturn ==
    /\ op # "none"
    /\ op' = "none"
    /\ text' = <<>>
    /\ found' = None
    /\ UNCHANGED <<pc, todo, index, province_trie, city_trie, district_trie,
                   address, result, trie, inserted,
                   args, ret, calls, is_valid, region_list>>

TrieNext == TrieInsert \/ TrieFind \/ TrieGet \/ TrieReturn

TrieSpec == TrieInit /\ [][TrieNext]_vars

(***************************************************************************)
(* Vocabulary of the properties.                                           *)
(***************************************************************************)
\* s without its leading and trailing whitespace, said without the trim functions
Stripped(s) ==
    LET solid == {i \in 1..Len(s) : ~is_whitespace(s[i])}
    IN IF solid = {} THEN <<>>
       ELSE SubSeq(s, CHOOSE i \in solid : \A j \in solid : i <= j,
                      CHOOSE i \in solid : \A j \in solid : i >= j)

\* the records that have a district, as (province, city, district)
Triples ==
    {<<load_regions[i].province, load_regions[i].city, unwrap(load_regions[i].district)>> :
        i \in {j \in 1..Len(load_regions) : is_some(load_regions[j].district)}}

\* the (province, city) pairs that own a district of this canonical name
Owners(d) == {<<t[1], t[2]>> : t \in {u \in Triples : u[3] = d}}

\* the district names with two or more distinct owners
SharedDistricts == {t[3] : t \in {u \in Triples : Cardinality(Owners(u[3])) >= 2}}

\* every name or abbreviation the index registers
RegisteredNames ==
    TheIndex.provinces
        \cup {short \in DOMAIN province_aliases : province_aliases[short] \in TheIndex.provinces}
        \cup TheIndex.cities \cup DOMAIN TheIndex.city_to_province
        \cup TheIndex.districts \cup DOMAIN TheIndex.district_to_city

Recognised(s) == \E n \in RegisteredNames : starts_with(s, n)

AllAbsent(r) == is_none(r.province) /\ is_none(r.city) /\ is_none(r.district)

\* a parser built by visiting every name set in one fixed order
RECURSIVE SetToSeq(_)
SetToSeq(S) ==
    IF S = {} THEN <<>>
    ELSE LET x == CHOOSE x \in S : TRUE IN <<x>> \o SetToSeq(S \ {x})

RECURSIVE FoldSteps(_, _, _, _)
FoldSteps(Step(_, _), t, order, i) ==
    IF i > Len(order) THEN t ELSE FoldSteps(Step, Step(t, order[i]), order, i + 1)

ReferenceParser ==
    [province_trie |-> FoldSteps(new_province_step, Trie_new, SetToSeq(TheIndex.provinces), 1),
     city_trie |-> FoldSteps(new_city_step, Trie_new, SetToSeq(TheIndex.cities), 1),
     district_trie |-> FoldSteps(new_district_step, Trie_new, SetToSeq(TheIndex.districts), 1),
     index |-> TheIndex]

(***************************************************************************)
(* C1..C10                                                                 *)
(***************************************************************************)
\* C1: for every record (province, city, district) and every free text s,
\* parse(province + city + district + s) returns that province, city and
\* district, and detail equal to s trimmed.
C1_RoundTrip ==
    op = "parse" =>
        \A t \in Triples, s \in Details :
            address = t[1] \o t[2] \o t[3] \o s =>
                result = [province |-> Some(t[1]), city |-> Some(t[2]),
                          district |-> Some(t[3]), detail |-> Stripped(s)]

\* C2: parse of a district name that two or more distinct (province, city)
\* pairs own, with no other text, returns no province, no city, and that
\* district.
C2_AmbiguousDistrict ==
    (op = "parse" /\ address \in SharedDistricts) =>
        /\ is_none(result.province)
        /\ is_none(result.city)
        /\ result.district = Some(address)

C2_Witness ==
    /\ op = "parse"
    /\ address \in SharedDistricts
    /\ result.district = Some(address)
    /\ Len(index.district_to_city[address]) >= 2

\* C3: for a district d that several cities own and an owner (p, c) of d with p
\* no municipality, parse(p + c + d) returns province p, city c and district d.
C3_ContextSelectsOwner ==
    op = "parse" =>
        \A t \in Triples :
            (/\ t[3] \in SharedDistricts
             /\ ~is_municipality(t[1])
             /\ address = t[1] \o t[2] \o t[3]) =>
                /\ result.province = Some(t[1])
                /\ result.city = Some(t[2])
                /\ result.district = Some(t[3])

C3_Witness ==
    /\ op = "parse"
    /\ address = JilinSheng \o ChangchunShi \o ChaoyangQu
    /\ ChaoyangQu \in SharedDistricts
    /\ index.district_to_city[ChaoyangQu][1] # <<JilinSheng, ChangchunShi>>
    /\ result.city = Some(ChangchunShi)
    /\ result.district = Some(ChaoyangQu)

\* C4: whenever the province step of parse matches a municipality, by its full
\* name or its alias, the result has city equal to province, whatever follows.
C4_MunicipalityCity ==
    LET m == province_match(Parser, address)
    IN (op = "parse" /\ is_some(m) /\ is_municipality(unwrap(m).value)) =>
          /\ result.province = Some(unwrap(m).value)
          /\ result.city = result.province

C4_Witness ==
    LET m == province_match(Parser, address)
    IN /\ op = "parse"
       /\ is_some(m)
       /\ is_municipality(unwrap(m).value)
       /\ unwrap(m).matched # unwrap(m).value
       /\ is_none(result.district)
       /\ result.detail # <<>>
       /\ result.city = result.province

\* C5: for every (short, full) pair of the alias table and every rest,
\* parse(short + rest) and parse(full + rest) return the same province.
C5_AliasEquivalence ==
    op = "parse" =>
        \A a \in AliasPairs :
            starts_with(address, a[1]) =>
                result.province =
                    parse(Parser, a[2] \o SubSeq(address, Len(a[1]) + 1, Len(address))).province

\* C6: for every canonical city c whose registered province is p, parse(c + rest)
\* on a text with no province at its start returns city c and province p.
C6_ProvinceFromCity ==
    op = "parse" =>
        \A c \in index.cities :
            (starts_with(address, c) /\ is_none(province_match(Parser, address))) =>
                /\ result.city = Some(c)
                /\ result.province = Some(index.city_to_province[c])

\* C7: parse never fails; when no registered name or abbreviation is a prefix of
\* the trimmed text, province, city and district are absent and detail is the
\* whole trimmed text.
C7_Unrecognised ==
    op = "parse" =>
        /\ result.detail # Panic
        /\ ~Recognised(Stripped(address)) =>
              /\ AllAbsent(result)
              /\ result.detail = Stripped(address)

C7_Witness ==
    /\ op = "parse"
    /\ ~Recognised(Stripped(address))
    /\ Stripped(address) # <<>>
    /\ Stripped(address) # address
    /\ result.detail = Stripped(address)

\* C8: for the empty text and for a text of whitespace only, parse returns
\* province, city and district absent and the empty detail.
C8_Blank ==
    (op = "parse" /\ \A i \in 1..Len(address) : is_whitespace(address[i])) =>
        /\ AllAbsent(result)
        /\ result.detail = <<>>

C8_Witness ==
    /\ op = "parse"
    /\ Len(address) >= 2
    /\ \A i \in 1..Len(address) : is_whitespace(address[i])
    /\ result = ParsedAddress_default

\* C9: parse is deterministic; whatever order the name sets were visited in while
\* the tries were built, the parser returns for every text what a parser built
\* in one fixed order returns.
C9_Deterministic ==
    op = "parse" => result = parse(ReferenceParser, address)

\* C10: find_longest_prefix returns the longest inserted name that is a prefix of
\* the text, with the value stored for that name and the byte length of that
\* name; it returns none exactly when no inserted name is a prefix of the text.
C10_LongestPrefix ==
    op = "find_longest_prefix" =>
        LET hits == {n \in DOMAIN inserted : starts_with(text, n)}
        IN IF hits = {} THEN found = None
           ELSE LET best == CHOOSE n \in hits : \A k \in hits : Len(k) <= Len(n)
                IN found = Some([matched |-> best, value |-> inserted[best],
                                 len |-> byte_len(best)])

\* C10, with the empty name set apart: find_longest_prefix returns the longest
\* inserted non-empty name that is a prefix of the text, with the value stored
\* for that name and the byte length of that name; it returns none exactly when
\* no inserted non-empty name is a prefix of the text (an inserted empty name
\* is never returned).
C10_LongestNonEmptyPrefix ==
    op = "find_longest_prefix" =>
        LET hits == {n \in DOMAIN inserted : n # <<>> /\ starts_with(text, n)}
        IN IF hits = {} THEN found = None
           ELSE LET best == CHOOSE n \in hits : \A k \in hits : Len(k) <= Len(n)
                IN found = Some([matched |-> best, value |-> inserted[best],
                                 len |-> byte_len(best)])

\* two inserted non-empty names are prefixes of the text, and the longer one is
\* returned, with a byte length above its length in chars
C10_Witness ==
    /\ op = "find_longest_prefix"
    /\ Cardinality({n \in DOMAIN inserted : n # <<>> /\ starts_with(text, n)}) >= 2
    /\ is_some(found)
    /\ Len(unwrap(found).matched) < Len(text)
    /\ unwrap(found).len > Len(unwrap(found).matched)
    /\ \A n \in DOMAIN inserted : starts_with(text, n) => Len(n) <= Len(unwrap(found).matched)

(***************************************************************************)
(* C11..C20                                                                *)
(***************************************************************************)
\* C11: after any sequence of inserts, get(name) returns the value of the last
\* insert made with exactly that name, and none for a name never inserted, a
\* strict prefix of an inserted name included.
C11_GetLastInsert ==
    op = "get" =>
        found = (IF text \in DOMAIN inserted THEN Some(inserted[text]) ELSE None)

\* a get of a never-inserted strict prefix of an inserted name, after two
\* inserts, returned none
C11_Witness ==
    /\ op = "get"
    /\ Cardinality(DOMAIN inserted) = 2
    /\ text \notin DOMAIN inserted
    /\ text # <<>>
    /\ \E n \in DOMAIN inserted : starts_with(n, text)
    /\ found = None

\* what a call returns when it runs alone on the parser
Alone(P, c) ==
    IF c.op = "parse" THEN parse(P, c.args)
    ELSE IF c.op = "normalize" THEN normalize(P, c.args.province, c.args.city, c.args.district)
    ELSE cities_of_province(P, c.args)

\* C12: whatever the interleaving of the calls of several threads on one built
\* parser, no step changes the three tries or the index, and every call returns
\* what it returns when it runs alone.
C12_SharedReadOnly ==
    /\ [][pc = "ready" => UNCHANGED <<province_trie, city_trie, district_trie, index>>]_vars
    /\ [](\A t \in Threads :
             calls[t].stage = "done" => calls[t].value = Alone(Parser, calls[t]))

\* a parse call returned while the call of another thread was between two steps
C12_Witness ==
    \E t, u \in Threads :
        /\ t # u
        /\ calls[t].stage = "done"
        /\ calls[t].op = "parse"
        /\ is_some(calls[t].value.city)
        /\ is_some(calls[t].value.district)
        /\ calls[u].stage = "district"

\* C13: parse_batch(texts) returns as many results as there are texts, and the
\* i-th result is parse(texts[i]) whatever the other texts are.
C13_BatchElementwise ==
    op = "parse_batch" =>
        /\ Len(ret) = Len(args)
        /\ \A i \in 1..Len(args) : ret[i] = parse(Parser, args[i])

\* a batch of two different addresses with two different results
C13_Witness ==
    /\ op = "parse_batch"
    /\ Len(args) = 2
    /\ args[1] # args[2]
    /\ ret[1] # ret[2]
    /\ is_some(ret[2].district)

\* C14: for a canonical province p, a canonical city c and a canonical district
\* d (or no district), normalize(p, c, d) is p + c + d (p + c without district).
C14_NormalizeCanonical ==
    (/\ op = "normalize"
     /\ args.province \in index.provinces
     /\ args.city \in index.cities
     /\ (is_none(args.district) \/ unwrap(args.district) \in index.districts)) =>
        ret = args.province \o args.city
                 \o (IF is_some(args.district) THEN unwrap(args.district) ELSE <<>>)

\* normalize was called with three canonical names
C14_Witness ==
    /\ op = "normalize"
    /\ args.province \in index.provinces
    /\ args.city \in index.cities
    /\ is_some(args.district)
    /\ unwrap(args.district) \in index.districts
    /\ ret = args.province \o args.city \o unwrap(args.district)

\* C15: normalize completes a district that is not canonical with the first of
\* "区", "县", "市", in this order, that gives a canonical district, and leaves
\* it unchanged when none does; the province goes through the alias table, then
\* the canonical set, then the suffix "省"; the city through the canonical set,
\* then the suffix "市".
C15_NormalizeOrder ==
    op = "normalize" =>
        LET p == args.province
            c == args.city
            order == <<Qu, Xian, Shi>>
            province_ == IF p \in DOMAIN province_aliases THEN province_aliases[p]
                         ELSE IF p \in index.provinces THEN p
                         ELSE IF p \o Sheng \in index.provinces THEN p \o Sheng
                         ELSE p
            city_ == IF c \in index.cities THEN c
                     ELSE IF c \o Shi \in index.cities THEN c \o Shi
                     ELSE c
            district_ ==
                IF is_none(args.district) THEN <<>>
                ELSE LET d == unwrap(args.district)
                         fits == {i \in 1..3 : d \o order[i] \in index.districts}
                     IN IF d \in index.districts \/ fits = {} THEN d
                        ELSE d \o order[CHOOSE i \in fits : \A j \in fits : i <= j]
        IN ret = province_ \o city_ \o district_

\* a short district that two suffixes complete was resolved to the "区" one
C15_Witness ==
    /\ op = "normalize"
    /\ is_some(args.district)
    /\ unwrap(args.district) \notin index.districts
    /\ unwrap(args.district) \o Qu \in index.districts
    /\ unwrap(args.district) \o Xian \in index.districts
    /\ args.province \in DOMAIN province_aliases
    /\ args.city \notin index.cities
    /\ ends_with(ret, unwrap(args.district) \o Qu)

\* C16: normalize and full_address treat a municipality differently:
\* normalize(p, p, d) for a municipality p writes the name twice (p + p + d),
\* and full_address of a result whose city equals its province writes it once
\* (province + district + detail).
C16_MunicipalityTwiceOnce ==
    /\ (/\ op = "normalize"
        /\ is_municipality(args.province)
        /\ args.city = args.province
        /\ (is_none(args.district) \/ unwrap(args.district) \in index.districts)) =>
           ret = args.province \o args.province
                    \o (IF is_some(args.district) THEN unwrap(args.district) ELSE <<>>)
    /\ (/\ op = "full_address"
        /\ is_some(result.province)
        /\ result.city = result.province) =>
           LET p == unwrap(result.province)
               d == IF is_some(result.district) THEN unwrap(result.district) ELSE <<>>
           IN /\ ret = p \o d \o result.detail
              /\ normalize(Parser, p, unwrap(result.city), result.district) = p \o p \o d

\* full_address of a parsed municipality address with district and detail wrote
\* the name once where normalize of the same names writes it twice
C16_Witness ==
    /\ op = "full_address"
    /\ is_some(result.province)
    /\ is_municipality(unwrap(result.province))
    /\ result.city = result.province
    /\ is_some(result.district)
    /\ result.detail # <<>>
    /\ ret = unwrap(result.province) \o unwrap(result.district) \o result.detail
    /\ Len(normalize(Parser, unwrap(result.province), unwrap(result.city), result.district))
          = 2 * Len(unwrap(result.province)) + Len(unwrap(result.district))

\* C17: is_valid_address(text) is true exactly when parse(text) has a province
\* or a city; it is false for the empty text and for a text no registered name
\* is a prefix of.
C17_ValidIffProvinceOrCity ==
    op = "is_valid_address" =>
        LET r == parse(Parser, args)
        IN /\ is_valid = (is_some(r.province) \/ is_some(r.city))
           /\ Stripped(args) = <<>> => is_valid = FALSE
           /\ ~Recognised(Stripped(args)) => is_valid = FALSE

\* a text that parses to a district and nothing else was reported not valid
C17_Witness ==
    /\ op = "is_valid_address"
    /\ is_valid = FALSE
    /\ is_some(parse(Parser, args).district)
    /\ Recognised(Stripped(args))

\* C18 as claimed: detail is what parse has not consumed with only its
\* trailing whitespace removed, so whitespace between the last recognised
\* segment and the rest is kept in detail.
C18_DetailRightTrimmed ==
    op = "parse" => result.detail = trim_end(remaining_at_end(Parser, address))

\* C18 as amended: detail is what parse has not consumed with both its leading
\* and its trailing whitespace removed.
C18_DetailTrimmed ==
    op = "parse" => result.detail = Stripped(remaining_at_end(Parser, address))

\* a segment was recognised, the rest started with a blank, and detail does not
C18_Witness ==
    /\ op = "parse"
    /\ is_some(result.province)
    /\ is_some(result.district)
    /\ remaining_at_end(Parser, address) # <<>>
    /\ is_whitespace(remaining_at_end(Parser, address)[1])
    /\ result.detail # <<>>
    /\ ~is_whitespace(result.detail[1])

\* C19: when the province step matches a province P that is no municipality,
\* the result has province P, and a city in the result is a city of P: a
\* district owned only by a city of another province never replaces the
\* province written in the text.
C19_ProvinceKept ==
    LET m == province_match(Parser, address)
    IN (op = "parse" /\ is_some(m) /\ ~is_municipality(unwrap(m).value)) =>
          /\ result.province = Some(unwrap(m).value)
          /\ is_some(result.city) =>
                map_get(index.city_to_province, unwrap(result.city)) = Some(unwrap(m).value)

\* the text left after the province step of parse(address_)
AfterProvince(P, address_) ==
    LET m == province_match(P, address_)
    IN IF is_some(m) THEN slice_from(trim(address_), unwrap(m).len) ELSE trim(address_)

\* the call reached the second step of parse: the text is not blank and the
\* province step did not match a municipality
ReachedCityStep(P, address_) ==
    LET m == province_match(P, address_)
    IN /\ trim(address_) # <<>>
       /\ is_some(m) => ~is_municipality(unwrap(m).value)

\* C20: prefer_district is true exactly when no province was recorded and
\* either the district matcher matched and the city matcher did not, or both
\* matched and the district match is longer in bytes or its canonical value
\* ends in "区", "县" or "旗"; when it is true the district match is taken and
\* the city match is not used.
C20_PreferDistrict ==
    (op = "parse" /\ ReachedCityStep(Parser, address)) =>
        LET m == province_match(Parser, address)
            province == IF is_some(m) THEN Some(unwrap(m).value) ELSE None
            rest == AfterProvince(Parser, address)
            cm == find_longest_prefix(city_trie, rest)
            dm == find_longest_prefix(district_trie, rest)
            last == unwrap(dm).value[Len(unwrap(dm).value)]
            claimed ==
                /\ is_none(m)
                /\ is_some(dm)
                /\ \/ is_none(cm)
                   \/ unwrap(dm).len > unwrap(cm).len
                   \/ last \in {Qu[1], Xian[1], Qi[1]}
            owners == map_get(index.district_to_city, unwrap(dm).value)
        IN /\ prefer_district(province, cm, dm) = claimed
           /\ claimed =>
                 /\ result.district = Some(unwrap(dm).value)
                 /\ result.detail = Stripped(slice_from(rest, unwrap(dm).len))
                 /\ result.city = (IF is_some(owners) /\ Len(unwrap(owners)) = 1
                                   THEN Some(unwrap(owners)[1][2]) ELSE None)

\* city and district both matched with no province, the district match was the
\* shorter one, and it was taken because its canonical value ends in "区"
C20_Witness ==
    LET rest == AfterProvince(Parser, address)
        cm == find_longest_prefix(city_trie, rest)
        dm == find_longest_prefix(district_trie, rest)
    IN /\ op = "parse"
       /\ ReachedCityStep(Parser, address)
       /\ is_none(province_match(Parser, address))
       /\ is_some(cm)
       /\ is_some(dm)
       /\ unwrap(dm).len < unwrap(cm).len
       /\ ends_with(unwrap(dm).value, Qu)
       /\ result.district = Some(unwrap(dm).value)
       /\ is_none(result.city)

(***************************************************************************)
(* C21..C27                                                                *)
(***************************************************************************)
\* C21: in the municipality branch the district is set exactly when the longest
\* district match on the text after the province has a canonical value
\* registered under the municipality; otherwise the district is absent, nothing
\* more is consumed and detail is the whole text after the province: neither
\* the city matcher nor a shorter district match is tried.
C21_MunicipalityDistrict ==
    LET m == province_match(Parser, address)
    IN (op = "parse" /\ is_some(m) /\ is_municipality(unwrap(m).value)) =>
          LET p == unwrap(m).value
              rest == AfterProvince(Parser, address)
              dm == find_longest_prefix(district_trie, rest)
              registered ==
                  /\ is_some(dm)
                  /\ \E i \in 1..Len(load_regions) :
                        /\ load_regions[i].city = p
                        /\ load_regions[i].district = Some(unwrap(dm).value)
          IN IF registered
             THEN /\ result.district = Some(unwrap(dm).value)
                  /\ result.detail = Stripped(slice_from(rest, unwrap(dm).len))
             ELSE /\ result.district = None
                  /\ result.detail = Stripped(rest)

\* after a municipality the longest district match belonged to another city:
\* no district was set, and the text after the province is the detail
C21_Witness ==
    LET m == province_match(Parser, address)
        rest == AfterProvince(Parser, address)
        dm == find_longest_prefix(district_trie, rest)
    IN /\ op = "parse"
       /\ is_some(m)
       /\ is_municipality(unwrap(m).value)
       /\ is_some(dm)
       /\ unwrap(dm).value \in index.districts
       /\ unwrap(dm).value \notin index.city_districts[unwrap(m).value]
       /\ result.district = None
       /\ result.detail = Stripped(rest)
       /\ result.detail # <<>>

\* the locals of parse(address_) when the second step starts
BeforeCityStep(P, address_) ==
    LET m == province_match(P, address_)
    IN [result |-> [ParsedAddress_default EXCEPT
                       !.province = IF is_some(m) THEN Some(unwrap(m).value) ELSE None],
        remaining |-> AfterProvince(P, address_)]

\* C22: when a province was recorded and the longest city match is a city
\* registered under another province, the city step sets no city and consumes
\* no text; a city is accepted only when its registered province is the
\* recorded one, or when no province was recorded.
C22_CityOfProvince ==
    LET m == province_match(Parser, address)
    IN (op = "parse" /\ ReachedCityStep(Parser, address) /\ is_some(m)) =>
          LET st == BeforeCityStep(Parser, address)
              after == city_stage(Parser, st)
              cm == find_longest_prefix(city_trie, st.remaining)
              dm == find_longest_prefix(district_trie, st.remaining)
              foreign == /\ is_some(cm)
                         /\ index.city_to_province[unwrap(cm).value] # unwrap(m).value
          IN /\ foreign => after = st
             /\ (foreign /\ is_none(dm)) =>
                   /\ result.city = None
                   /\ result.detail = Stripped(st.remaining)
             /\ is_some(after.result.city) =>
                   /\ after.result.city = Some(unwrap(cm).value)
                   /\ index.city_to_province[unwrap(cm).value] = unwrap(m).value

\* a province, then a city of another province that no district name starts:
\* the result has no city and the city's text is in the detail
C22_Witness ==
    LET m == province_match(Parser, address)
        st == BeforeCityStep(Parser, address)
        cm == find_longest_prefix(city_trie, st.remaining)
    IN /\ op = "parse"
       /\ ReachedCityStep(Parser, address)
       /\ is_some(m)
       /\ is_some(cm)
       /\ unwrap(cm).matched = unwrap(cm).value
       /\ index.city_to_province[unwrap(cm).value] # unwrap(m).value
       /\ result.province = Some(unwrap(m).value)
       /\ result.city = None
       /\ starts_with(result.detail, unwrap(cm).value)

\* the (province, city) pairs of the records whose district has this canonical
\* name, or this name once a suffix is stripped
OwnersIn(list, key) ==
    {<<list[i].province, list[i].city>> :
        i \in {j \in 1..Len(list) :
                 /\ is_some(list[j].district)
                 /\ \/ unwrap(list[j].district) = key
                    \/ \E k \in 1..Len(DistrictSuffixes) :
                          /\ ends_with(unwrap(list[j].district), DistrictSuffixes[k])
                          /\ trim_end_matches(unwrap(list[j].district), DistrictSuffixes[k]) = key}}

\* C23: for every key of district_to_city the owner list holds each (province,
\* city) pair that owns a district of that canonical name or abbreviation
\* exactly once, so a list of two or more entries means two or more distinct
\* owners, and a district with a single owner is resolved to it.
C23_OwnersOnce ==
    /\ \A key \in DOMAIN index.district_to_city :
          LET owners == index.district_to_city[key]
          IN /\ {owners[i] : i \in 1..Len(owners)} = OwnersIn(region_list, key)
             /\ Len(owners) = Cardinality(OwnersIn(region_list, key))
    /\ (/\ op = "parse"
        /\ address \in DOMAIN index.district_to_city
        /\ Cardinality(OwnersIn(region_list, address)) = 1
        /\ is_none(province_match(Parser, address))
        /\ is_none(find_longest_prefix(city_trie, address))) =>
           \E o \in OwnersIn(region_list, address) :
               result.province = Some(o[1]) /\ result.city = Some(o[2])

\* n is the byte offset of a char boundary of the text, its end included
OnBoundary(s, n) == \E k \in 0..Len(s) : byte_len(SubSeq(s, 1, k)) = n

\* C24: every offset at which parse slices the remaining text is the byte
\* length of a trie match on that same text: it is at most the length of the
\* text and lies on a char boundary, so parse cuts inside no multi-byte char
\* and indexes nothing past the end.
C24_SliceOnBoundary ==
    op = "parse" =>
        LET trimmed == trim(address)
            m == province_match(Parser, address)
            st == BeforeCityStep(Parser, address)
            cm == find_longest_prefix(city_trie, st.remaining)
            dm == find_longest_prefix(district_trie, st.remaining)
            after == city_stage(Parser, st)
            dm3 == find_longest_prefix(district_trie, after.remaining)
        IN /\ is_some(m) => OnBoundary(trimmed, unwrap(m).len)
           /\ st.remaining # Panic
           /\ is_some(cm) => OnBoundary(st.remaining, unwrap(cm).len)
           /\ is_some(dm) => OnBoundary(st.remaining, unwrap(dm).len)
           /\ after.remaining # Panic
           /\ is_some(dm3) => OnBoundary(after.remaining, unwrap(dm3).len)
           /\ \A i \in 1..Len(result.detail) : result.detail[i] >= 0
           /\ \E k \in 0..Len(trimmed) :
                 result.detail = Stripped(SubSeq(trimmed, k + 1, Len(trimmed)))

\* province, city and district were cut off a text of three-byte chars, each
\* at a byte offset larger than its char count, and the rest is the detail
C24_Witness ==
    LET m == province_match(Parser, address)
        st == BeforeCityStep(Parser, address)
        cm == find_longest_prefix(city_trie, st.remaining)
    IN /\ op = "parse"
       /\ is_some(m)
       /\ unwrap(m).len = 3 * Len(unwrap(m).matched)
       /\ is_some(cm)
       /\ unwrap(cm).len = 3 * Len(unwrap(cm).matched)
       /\ result.city = Some(unwrap(cm).value)
       /\ is_some(result.district)
       /\ result.detail # <<>>
       /\ Len(result.detail) < Len(st.remaining) - Len(unwrap(cm).matched)

\* every name of the index is in its trie: AddressParser::new has run to its end
Complete(P) ==
    /\ P.index = build(load_regions)
    /\ \A n \in P.index.provinces : get(P.province_trie, n) = Some(n)
    /\ \A n \in P.index.cities : get(P.city_trie, n) = Some(n)
    /\ \A n \in P.index.districts : get(P.district_trie, n) = Some(n)

RECURSIVE SumBuilt(_)
\* how many times the threads of the set have started AddressParser::new
SumBuilt(T) ==
    IF T = {} THEN 0
    ELSE LET t == CHOOSE t \in T : TRUE IN calls[t].built + SumBuilt(T \ {t})

\* C25: when several threads make their first call to the global parser at the
\* same time, the parser is constructed exactly once, no caller runs on a partly
\* built parser, and every caller gets the result that a freshly constructed
\* parser returns for its call.
C25_GlobalOnce ==
    /\ SumBuilt(Threads) <= 1
    /\ Cell # "uninit" => SumBuilt(Threads) = 1
    /\ \A t \in Threads :
          /\ calls[t].stage \in {"run", "done"} => Complete(Parser)
          /\ calls[t].stage = "done" => calls[t].value = Alone(ReferenceParser, calls[t])

\* C26: in every result of parse that has a city and a district, the district
\* is registered under that city in the index.
C26_DistrictOfCity ==
    (op = "parse" /\ is_some(result.city) /\ is_some(result.district))
        => validate_district(index, unwrap(result.city), unwrap(result.district))

\* C27: in every result of parse, a city is present only if a province is
\* present.
C27_CityNeedsProvince ==
    (op = "parse" /\ is_some(result.city)) => is_some(result.province)

\* an address that starts with a city and names no province nor district: the
\* province of the result comes from the city
C27_Witness ==
    /\ op = "parse"
    /\ address = ShenzhenShi
    /\ result.city = Some(ShenzhenShi)
    /\ result.province = Some(GuangdongSheng)
    /\ is_none(result.district)

====
